---- MODULE Spec2Model ----
(***************************************************************************)
(* Email -> Telegram notifier: the store (db.py), the dispatcher and the   *)
(* acknowledgment handler (bot.py), the mailbox watcher (imap_watcher.py)  *)
(* and process start-up (main.py).                                         *)
(***************************************************************************)
EXTENDS Integers, Sequences, FiniteSets, TLC

\* ---------------------------------------------------------------- bounds
NumChats == 2
MaxEmit == 3
MaxAckEmit == 1
MaxCmds == 2
MaxAcks == 2
MaxClock == 1
MaxRestarts == 1
MaxUid == 2
NumCallers == 2
MaxCalls == 2
MaxPreviewLength == 12
\* the size beyond which bot_simple clears processed_emails (100 in the code)
MaxProcessed == 1

\* ------------------------------------------------------------ value sets
NULL == "NULL"
\* handled_at of a row that is not handled (NULL)
NoTime == -1
NoFilter == {}
Chats == 1..NumChats
Callers == 1..NumCallers
Users == {"u1", "u2"}
Labels == {"A", "B"}
MessageIds == {"a", "b"}
Senders == {"bob"}
Subjects == {"s", "t", "out of office"}
Bodies == {"hi"}
\* bytes mailparser cannot parse
Malformed == [message_id |-> "", sender |-> "", subject |-> "", body |-> "?"]
RawEmails ==
    {r \in [message_id : MessageIds, sender : Senders, subject : Subjects,
            body : Bodies] : r.message_id = "a" \/ r.subject = "s"}
        \cup {Malformed}
\* what filter_accounts can hold: NULL (NoFilter) or a non-empty label list
Filters == {NoFilter} \cup {{l} : l \in Labels}

VARIABLES
    \* the SQLite store (db.py)
    emails, groups, email_notifications, seq_emails, seq_groups,
    \* coarse wall clock, in units of the cleanup horizon (30 days)
    clock,
    \* the hand-off queue and the dispatcher thread (bot.py process_email_queue)
    email_queue, pc, cur, active_groups, todo, sent_message,
    \* the chat platform: per-chat message ids, visible notifications, callbacks
    nextMsgId, chat_messages, callback_queue,
    \* history of what the program did
    ackLog, sendLog, skipLog, presented, cleaned, discarded,
    \* how many inputs the environment has given
    nEmit, nCmds, nRestarts,
    \* the INBOX on the IMAP server: the UIDs it holds, the next UID it assigns
    mailbox, nextUid,
    \* one EmailWatcher (imap_watcher.py): its thread, client and watermark
    thread, client, last_seen_uids,
    \* history of the watcher's run
    connectUids, connected_once, arrived, emitLog, fetchFailed,
    \* the units driven on their own: callers of the store, inputs of the parser
    calls, parser_in, parser_out,
    \* the watcher's life: the account's use_idle, the server's IDLE capability,
    \* the loop the thread runs and where it stands, stop_event, stop()'s progress
    use_idle, has_idle, thread_target, at, stop_event, stopping, after_stop,
    \* history of the dispatcher's loop: the last exception its handler caught
    lastCaught,
    \* bot_simple.py: the subscribed chats, the keys the dispatcher remembers,
    \* and the history of its broadcasts
    simple_active_groups, processed_emails, broadcastLog

storeVars == <<emails, groups, email_notifications, seq_emails, seq_groups>>
dispVars == <<pc, cur, active_groups, todo, sent_message>>
platVars == <<nextMsgId, chat_messages, callback_queue>>
histVars == <<ackLog, sendLog, skipLog, presented, cleaned, discarded>>
cntVars == <<nEmit, nCmds, nRestarts>>
watchVars == <<mailbox, nextUid, thread, client, last_seen_uids, connectUids,
               connected_once, arrived, emitLog, fetchFailed>>
unitVars == <<calls, parser_in, parser_out>>
simpleVars == <<simple_active_groups, processed_emails, broadcastLog>>
lifeVars == <<use_idle, has_idle, thread_target, at, stop_event, stopping, after_stop>>
vars == <<storeVars, clock, email_queue, dispVars, platVars, histVars, cntVars,
          watchVars, unitVars, lifeVars, lastCaught, simpleVars>>

\* ------------------------------------------------------------- parser.py
\* text is a string; CharAt is text[i-1], Slice is text[i-1:j]
CharAt(text, i) == SubSeq(text, i, i)
Slice(text, i, j) == SubSeq(text, i, j)

UpperCase == "ABCDEFGHIJKLMNOPQRSTUVWXYZ"
LowerCase == "abcdefghijklmnopqrstuvwxyz"

lower_char(ch) ==
    IF \E i \in 1..Len(UpperCase) : CharAt(UpperCase, i) = ch
    THEN CharAt(LowerCase, CHOOSE i \in 1..Len(UpperCase) : CharAt(UpperCase, i) = ch)
    ELSE ch

\* str.lower()
RECURSIVE lower(_)
lower(text) ==
    IF text = "" THEN ""
    ELSE lower_char(CharAt(text, 1)) \o lower(Slice(text, 2, Len(text)))

\* "keyword in text"
contains(text, keyword) ==
    \E i \in 1..(Len(text) + 1) :
        /\ i + Len(keyword) - 1 <= Len(text)
        /\ Slice(text, i, i + Len(keyword) - 1) = keyword

\* a pattern "p1.?p2.?p3" is the sequence of its literal pieces; it matches at
\* position i when p1 is there and the rest follows, at once or after one
\* character that is not a newline
RECURSIVE re_match_at(_, _, _)
re_match_at(pieces, text, i) ==
    LET piece == Head(pieces)
        j == i + Len(piece)
    IN  /\ j - 1 <= Len(text)
        /\ Slice(text, i, j - 1) = piece
        /\ \/ Len(pieces) = 1
           \/ re_match_at(Tail(pieces), text, j)
           \/ /\ j <= Len(text)
              /\ CharAt(text, j) # "\n"
              /\ re_match_at(Tail(pieces), text, j + 1)

\* re.search(pattern, text)
re_search(pieces, text) ==
    \E i \in 1..(Len(text) + 1) : re_match_at(pieces, text, i)

\* Settings.spam_keywords, the default list
spam_keywords_default ==
    {"unsubscribe", "no-reply", "noreply", "auto-reply", "automatic reply",
     "out of office", "vacation", "away from office"}

\* EmailParser.__init__: the keywords, lower-cased
init_spam_keywords(spam_keywords) == {lower(kw) : kw \in spam_keywords}

auto_reply_patterns ==
    {<<"auto", "reply">>, <<"automatic", "reply">>, <<"out", "of", "office">>,
     <<"vacation", "reply">>, <<"away", "from", "office">>,
     <<"be", "back", "on">>}

\* no.?reply|donotreply|postmaster|mailer.?daemon
no_reply_patterns ==
    {<<"no", "reply">>, <<"donotreply">>, <<"postmaster">>,
     <<"mailer", "daemon">>}

\* an _is_spam without the check of the sender's address
is_spam_text_no_sender(spam_keywords, sender, subject, body) ==
    LET combined_text == lower(sender \o " " \o subject \o " " \o body)
    IN  \/ \E keyword \in spam_keywords : contains(combined_text, keyword)
        \/ \E pattern \in auto_reply_patterns : re_search(pattern, combined_text)

\* _is_spam of a parser with these (lower-cased) keywords
is_spam_text(spam_keywords, sender, subject, body) ==
    LET combined_text == lower(sender \o " " \o subject \o " " \o body)
    IN  \/ \E keyword \in spam_keywords : contains(combined_text, keyword)
        \/ \E pattern \in auto_reply_patterns : re_search(pattern, combined_text)
        \/ \E pattern \in no_reply_patterns : re_search(pattern, lower(sender))

\* \s of the re module, without the vertical tab
is_space(ch) == ch \in {" ", "\t", "\n", "\r", "\f"}

\* the length of "https?://" where it stands at position i before a character
\* that is not white space, else 0
url_prefix_len(text, i) ==
    IF /\ i + 8 <= Len(text)
       /\ Slice(text, i, i + 7) = "https://"
       /\ ~is_space(CharAt(text, i + 8))
    THEN 8
    ELSE IF /\ i + 7 <= Len(text)
            /\ Slice(text, i, i + 6) = "http://"
            /\ ~is_space(CharAt(text, i + 7))
         THEN 7
         ELSE 0

\* \S+ from position j on: the last position of the run without white space
RECURSIVE run_end(_, _)
run_end(text, j) ==
    IF j < Len(text) /\ ~is_space(CharAt(text, j + 1))
    THEN run_end(text, j + 1)
    ELSE j

\* re.sub(r'https?://\S+', '[URL]', text), from position i on
RECURSIVE url_elide_from(_, _)
url_elide_from(text, i) ==
    IF i > Len(text) THEN ""
    ELSE LET n == url_prefix_len(text, i)
         IN  IF n > 0
             THEN "[URL]" \o url_elide_from(text, run_end(text, i + n) + 1)
             ELSE CharAt(text, i) \o url_elide_from(text, i + 1)

url_elide(text) == url_elide_from(text, 1)

\* text[:k] of Python: to k characters, and for a negative k all but the last -k
py_slice_to(text, k) ==
    IF k >= 0
    THEN Slice(text, 1, IF k < Len(text) THEN k ELSE Len(text))
    ELSE Slice(text, 1, IF Len(text) + k > 0 THEN Len(text) + k ELSE 0)

\* _create_preview of a parser with this max_preview_length
create_preview(max_preview_length, text) ==
    IF text = "" THEN "No content"
    ELSE LET elided == url_elide(text)
         IN  IF Len(elided) > max_preview_length
             THEN py_slice_to(elided, max_preview_length - 3) \o "..."
             ELSE elided

\* _is_spam on the candidates of RawEmails under the default keywords: of
\* these only the subject "out of office" is flagged
is_spam(sender, subject, body) ==
    "out of office" \in {sender, subject, body}

\* a parser that never sets the spam flag
parse_email_unflagged(raw_email) ==
    IF raw_email = Malformed
    THEN [ok |-> FALSE, message_id |-> "", sender |-> "", subject |-> "",
          is_spam |-> FALSE]
    ELSE [ok |-> TRUE,
          message_id |-> raw_email.message_id,
          sender |-> raw_email.sender,
          subject |-> raw_email.subject,
          is_spam |-> FALSE]

\* a parser that hands on what it had extracted when the exception came
parse_email_partial(raw_email) ==
    [ok |-> TRUE,
     message_id |-> raw_email.message_id,
     sender |-> raw_email.sender,
     subject |-> raw_email.subject,
     is_spam |-> IF raw_email = Malformed THEN FALSE
                 ELSE is_spam(raw_email.sender, raw_email.subject, raw_email.body)]

\* None is the record with ok FALSE and nothing filled in
parse_email(raw_email) ==
    IF raw_email = Malformed
    THEN [ok |-> FALSE, message_id |-> "", sender |-> "", subject |-> "",
          is_spam |-> FALSE]
    ELSE [ok |-> TRUE,
          message_id |-> raw_email.message_id,
          sender |-> raw_email.sender,
          subject |-> raw_email.subject,
          is_spam |-> is_spam(raw_email.sender, raw_email.subject, raw_email.body)]

\* ----------------------------------------------------------------- db.py
generate_email_hash(message_id, sender, subject) ==
    <<message_id, "|", sender, "|", subject>>

\* a dispatcher that never finds a stored email
email_exists_never(message_id, sender, subject) == FALSE

email_exists(message_id, sender, subject) ==
    \E e \in emails :
        \/ e.email_hash = generate_email_hash(message_id, sender, subject)
        \/ e.message_id = message_id

\* add_email: the id of the row with this hash, a new row when there is none
add_email_id(message_id, sender, subject) ==
    LET h == generate_email_hash(message_id, sender, subject)
    IN  IF \E e \in emails : e.email_hash = h
        THEN (CHOOSE e \in emails : e.email_hash = h).id
        ELSE seq_emails + 1

add_email_rows(message_id, email_account, sender, subject) ==
    LET h == generate_email_hash(message_id, sender, subject)
    IN  IF \E e \in emails : e.email_hash = h
        THEN emails
        ELSE emails \cup {[id |-> seq_emails + 1, message_id |-> message_id,
                           email_account |-> email_account, sender |-> sender,
                           subject |-> subject, email_hash |-> h,
                           created_at |-> clock]}

\* None where add_email has no row or no id: rowids start at 1
NoId == 0

\* add_email, statement by statement, as one of several callers on their own
\* connections runs it. A caller that has not called yet:
NoCall ==
    [pc |-> "idle", message_id |-> "", email_account |-> "", sender |-> "",
     subject |-> "", existing |-> NoId, ret |-> NoId, n |-> 0]

\* a caller enters add_email with its arguments
add_email_call(c, email_account, raw_email) ==
    /\ calls[c].pc \in {"idle", "returned"}
    /\ calls[c].n < MaxCalls
    /\ calls' = [calls EXCEPT ![c] =
            [pc |-> "select", message_id |-> raw_email.message_id,
             email_account |-> email_account, sender |-> raw_email.sender,
             subject |-> raw_email.subject, existing |-> NoId, ret |-> NoId,
             n |-> calls[c].n + 1]]
    /\ UNCHANGED <<storeVars, clock, email_queue, dispVars, platVars, histVars,
                   cntVars, watchVars, lifeVars,
                   lastCaught, simpleVars, parser_in, parser_out>>

\* lines 133-134: SELECT id FROM emails WHERE email_hash = ?, fetchone()
add_email_select(c) ==
    /\ calls[c].pc = "select"
    /\ LET h == generate_email_hash(calls[c].message_id, calls[c].sender,
                                    calls[c].subject)
           found == {e \in emails : e.email_hash = h}
       IN  calls' = [calls EXCEPT
                ![c].pc = "selected",
                ![c].existing = IF found = {} THEN NoId
                                ELSE (CHOOSE e \in found :
                                        \A x \in found : e.id <= x.id).id]
    /\ UNCHANGED <<storeVars, clock, email_queue, dispVars, platVars, histVars,
                   cntVars, watchVars, lifeVars,
                   lastCaught, simpleVars, parser_in, parser_out>>

\* lines 135-149: "if existing: return existing['id']", else INSERT, commit,
\* return cursor.lastrowid
add_email_insert(c) ==
    /\ calls[c].pc = "selected"
    /\ IF calls[c].existing # NoId
       THEN /\ calls' = [calls EXCEPT ![c].pc = "returned",
                                      ![c].ret = calls[c].existing]
            /\ UNCHANGED <<emails, seq_emails>>
       ELSE /\ emails' = emails \cup
                {[id |-> seq_emails + 1, message_id |-> calls[c].message_id,
                  email_account |-> calls[c].email_account,
                  sender |-> calls[c].sender, subject |-> calls[c].subject,
                  email_hash |-> generate_email_hash(calls[c].message_id,
                                    calls[c].sender, calls[c].subject),
                  created_at |-> clock]}
            /\ seq_emails' = seq_emails + 1
            /\ calls' = [calls EXCEPT ![c].pc = "returned",
                                      ![c].ret = seq_emails + 1]
    /\ UNCHANGED <<groups, email_notifications, seq_groups, clock, email_queue,
                   dispVars, platVars, histVars, cntVars, watchVars, lifeVars,
                   lastCaught, simpleVars, parser_in,
                   parser_out>>

\* lines 150-152: a statement raises (the database is locked past the timeout,
\* the disk is full): logged, None returned, nothing committed
add_email_raises(c) ==
    /\ calls[c].pc \in {"select", "selected"}
    /\ calls' = [calls EXCEPT ![c].pc = "returned", ![c].ret = NoId]
    /\ UNCHANGED <<storeVars, clock, email_queue, dispVars, platVars, histVars,
                   cntVars, watchVars, lifeVars,
                   lastCaught, simpleVars, parser_in, parser_out>>

\* INSERT OR REPLACE INTO groups: the row of this chat is deleted and a new
\* row takes the next AUTOINCREMENT id, is_active 1, the given filter
add_group(chat_id, filter_accounts) ==
    {g \in groups : g.chat_id # chat_id}
        \cup {[id |-> seq_groups + 1, chat_id |-> chat_id, is_active |-> 1,
               filter_accounts |-> filter_accounts]}

remove_group(chat_id) ==
    {IF g.chat_id = chat_id THEN [g EXCEPT !.is_active = 0] ELSE g : g \in groups}

get_active_groups == {g \in groups : g.is_active = 1}

get_group_by_chat_id(chat_id) == {g \in groups : g.chat_id = chat_id}

update_group_filter(chat_id, filter_accounts) ==
    {IF g.chat_id = chat_id THEN [g EXCEPT !.filter_accounts = filter_accounts]
     ELSE g : g \in groups}

\* INSERT OR IGNORE: UNIQUE(email_id, group_id)
add_notification(email_id, group_id, telegram_message_id) ==
    IF \E n \in email_notifications : n.email_id = email_id /\ n.group_id = group_id
    THEN email_notifications
    ELSE email_notifications \cup
            {[email_id |-> email_id, group_id |-> group_id,
              telegram_message_id |-> telegram_message_id,
              is_handled |-> 0, handled_at |-> NoTime, handled_by |-> NULL]}

\* an UPDATE without the "is_handled = 0" condition
handled_match_any(n, telegram_message_id) ==
    n.telegram_message_id = telegram_message_id

\* the rows the UPDATE of mark_notification_handled matches
handled_match(n, telegram_message_id) ==
    n.telegram_message_id = telegram_message_id /\ n.is_handled = 0

\* an UPDATE that sets is_handled and handled_at and leaves handled_by alone
mark_notification_handled_anonymous(telegram_message_id, handled_by) ==
    {IF handled_match(n, telegram_message_id)
     THEN [n EXCEPT !.is_handled = 1, !.handled_at = clock]
     ELSE n : n \in email_notifications}

\* an UPDATE that sets is_handled and handled_by and leaves handled_at alone
mark_notification_handled_undated(telegram_message_id, handled_by) ==
    {IF handled_match(n, telegram_message_id)
     THEN [n EXCEPT !.is_handled = 1, !.handled_by = handled_by]
     ELSE n : n \in email_notifications}

mark_notification_handled(telegram_message_id, handled_by) ==
    {IF handled_match(n, telegram_message_id)
     THEN [n EXCEPT !.is_handled = 1, !.handled_at = clock, !.handled_by = handled_by]
     ELSE n : n \in email_notifications}

mark_rowcount(telegram_message_id) ==
    Cardinality({n \in email_notifications : handled_match(n, telegram_message_id)})

email_sent_to_group(email_id, group_id) ==
    \E n \in email_notifications : n.email_id = email_id /\ n.group_id = group_id

\* cleanup_old_handled_notifications(days=30): first the handled notifications
\* older than the horizon, then the emails no notification references
cleanup_notifications ==
    {n \in email_notifications : ~(n.is_handled = 1 /\ n.handled_at < clock)}

\* a second DELETE that looks at the age of an email only
cleanup_emails_by_age ==
    {e \in emails : ~(e.created_at < clock)}

cleanup_emails ==
    {e \in emails :
        ~(/\ \A n \in cleanup_notifications : n.email_id # e.id
          /\ e.created_at < clock)}

\* ---------------------------------------------------------------- bot.py
\* a dispatcher that ignores the filter
should_send_always(group_info, email_account_label) == TRUE

should_send_to_group(group_info, email_account_label) ==
    IF group_info.filter_accounts = NoFilter THEN TRUE
    ELSE email_account_label \in group_info.filter_accounts

\* the dispatcher's position: "get" waits on the queue, "fanout" walks the
\* snapshot of active groups, "sent" is between send_message and add_notification
CurNone == [email_id |-> 0, account_label |-> "", email_hash |-> <<>>, repeat |-> FALSE]
SentNone == [group_id |-> 0, chat_id |-> 0, message_id |-> 0]

\* a fresh store, a fresh process, an idle platform
InitProgram(group_rows, n_groups) ==
    /\ emails = {} /\ email_notifications = {}
    /\ groups = group_rows
    /\ seq_emails = 0 /\ seq_groups = n_groups
    /\ clock = 0
    /\ email_queue = <<>> /\ pc = "get" /\ cur = CurNone
    /\ active_groups = {} /\ todo = {} /\ sent_message = SentNone
    /\ nextMsgId = [c \in Chats |-> 1]
    /\ chat_messages = {} /\ callback_queue = <<>>
    /\ ackLog = <<>> /\ sendLog = {} /\ skipLog = {}
    /\ presented = {} /\ cleaned = {} /\ discarded = {}
    /\ nEmit = 0 /\ nCmds = 0 /\ nRestarts = 0
    /\ mailbox = {} /\ nextUid = 1
    /\ thread = "none" /\ client = "none" /\ last_seen_uids = {}
    /\ connectUids = {} /\ connected_once = FALSE /\ arrived = {}
    /\ emitLog = {} /\ fetchFailed = {}
    /\ calls = [c \in Callers |-> NoCall]
    /\ thread_target = "none" /\ at = "none" /\ stop_event = FALSE
    /\ stopping = "none" /\ after_stop = {}
    /\ lastCaught = {}
    /\ simple_active_groups = {} /\ processed_emails = {} /\ broadcastLog = <<>>

\* the same with no parser call under way
InitWith(group_rows, n_groups) ==
    /\ InitProgram(group_rows, n_groups)
    /\ parser_in = NULL /\ parser_out = NULL
    /\ use_idle = TRUE /\ has_idle = TRUE

Init == InitWith({}, 0)

\* EmailWatcherManager.add_account / email_callback: a watcher puts a candidate
Enqueue(label, raw) ==
    /\ nEmit' = nEmit + 1
    /\ email_queue' = Append(email_queue, [account_label |-> label, raw_email |-> raw])
    /\ UNCHANGED <<unitVars, lifeVars, lastCaught, simpleVars>>
    /\ UNCHANGED watchVars
    /\ UNCHANGED <<storeVars, clock, dispVars, platVars, ackLog, sendLog, skipLog,
                   presented, cleaned, discarded, nCmds, nRestarts>>

\* how often the dispatcher has taken a candidate with this hash off the queue,
\* counted up to two
Presented(h) ==
    IF <<h, 1>> \in presented THEN presented \cup {<<h, 2>>}
    ELSE presented \cup {<<h, 1>>}

\* process_email_queue, one item: get, parse, spam check, email_exists,
\* add_email, get_active_groups
Dequeue ==
    /\ pc = "get"
    /\ email_queue # <<>>
    /\ LET email_data == Head(email_queue)
           parsed == parse_email(email_data.raw_email)
           h == generate_email_hash(parsed.message_id, parsed.sender, parsed.subject)
           dropped == \/ ~parsed.ok
                      \/ parsed.is_spam
                      \/ email_exists(parsed.message_id, parsed.sender, parsed.subject)
       IN  /\ email_queue' = Tail(email_queue)
           /\ presented' = IF parsed.ok /\ ~parsed.is_spam
                           THEN Presented(h) ELSE presented
           /\ discarded' = IF parsed.ok /\ parsed.is_spam
                           THEN discarded \cup {h} ELSE discarded
           /\ IF dropped
              THEN UNCHANGED <<emails, seq_emails, dispVars>>
              ELSE /\ emails' = add_email_rows(parsed.message_id,
                                    email_data.account_label, parsed.sender,
                                    parsed.subject)
                   /\ seq_emails' =
                        IF emails' = emails THEN seq_emails ELSE seq_emails + 1
                   /\ active_groups' = get_active_groups
                   /\ todo' = get_active_groups
                   /\ IF get_active_groups = {}
                      THEN pc' = "get" /\ cur' = CurNone
                      ELSE /\ pc' = "fanout"
                           /\ cur' = [email_id |-> add_email_id(parsed.message_id,
                                                    parsed.sender, parsed.subject),
                                      account_label |-> email_data.account_label,
                                      email_hash |-> h,
                                      repeat |-> <<h, 1>> \in presented]
                   /\ UNCHANGED sent_message
    /\ UNCHANGED <<unitVars, lifeVars, lastCaught, simpleVars>>
    /\ UNCHANGED watchVars
    /\ UNCHANGED <<groups, email_notifications, seq_groups, clock, platVars,
                   ackLog, sendLog, skipLog, cleaned, cntVars>>

\* the next row of the snapshot, in rowid order
NextGroup == CHOOSE g \in todo : \A x \in todo : g.id <= x.id

\* the for loop moves on; after the last row the while loop takes the next item
AfterGroup(g) ==
    /\ todo' = todo \ {g}
    /\ IF todo \ {g} = {}
       THEN pc' = "get" /\ cur' = CurNone /\ active_groups' = {}
       ELSE pc' = "fanout" /\ UNCHANGED <<cur, active_groups>>

\* what the dispatcher read and decided for one group of the snapshot
Decision(g, outcome) ==
    [email_id |-> cur.email_id, chat_id |-> g.chat_id, group_id |-> g.id,
     account_label |-> cur.account_label, is_active |-> g.is_active,
     filter_accounts |-> g.filter_accounts, outcome |-> outcome,
     n |-> 1 + Cardinality({s \in sendLog :
                              s.email_id = cur.email_id /\ s.chat_id = g.chat_id})]

\* the loop body when nothing is sent: should_send_to_group says no, or
\* email_sent_to_group says the pair has a row
SkipGroup ==
    /\ pc = "fanout"
    /\ LET g == NextGroup
       IN  /\ \/ ~should_send_to_group(g, cur.account_label)
              \/ email_sent_to_group(cur.email_id, g.id)
           /\ skipLog' = skipLog \cup
                {Decision(g, IF ~should_send_to_group(g, cur.account_label)
                             THEN "filtered" ELSE "already_sent")}
           /\ AfterGroup(g)
    /\ UNCHANGED <<unitVars, lifeVars, lastCaught, simpleVars>>
    /\ UNCHANGED watchVars
    /\ UNCHANGED <<storeVars, clock, email_queue, sent_message, platVars,
                   ackLog, sendLog, presented, cleaned, discarded, cntVars>>

\* bot.send_message succeeds: the platform assigns the next message id of that chat
SendOk ==
    /\ pc = "fanout"
    /\ LET g == NextGroup
           mid == nextMsgId[g.chat_id]
       IN  /\ should_send_to_group(g, cur.account_label)
           /\ ~email_sent_to_group(cur.email_id, g.id)
           /\ nextMsgId' = [nextMsgId EXCEPT ![g.chat_id] = mid + 1]
           /\ chat_messages' = chat_messages \cup {<<g.chat_id, mid>>}
           /\ sent_message' = [group_id |-> g.id, chat_id |-> g.chat_id,
                               message_id |-> mid]
           /\ sendLog' = sendLog \cup {Decision(g, "sent")}
           /\ pc' = "sent"
    /\ UNCHANGED <<unitVars, lifeVars, lastCaught, simpleVars>>
    /\ UNCHANGED watchVars
    /\ UNCHANGED <<storeVars, clock, email_queue, cur, active_groups, todo,
                   callback_queue, ackLog, skipLog, presented, cleaned, discarded,
                   cntVars>>

\* a send failure that escapes the for loop and ends the item
SendFail_aborts ==
    /\ pc = "fanout"
    /\ LET g == NextGroup
       IN  /\ should_send_to_group(g, cur.account_label)
           /\ ~email_sent_to_group(cur.email_id, g.id)
           /\ sendLog' = sendLog \cup {Decision(g, "failed")}
           /\ todo' = {} /\ pc' = "get" /\ cur' = CurNone /\ active_groups' = {}
    /\ UNCHANGED <<unitVars, lifeVars, lastCaught, simpleVars>>
    /\ UNCHANGED watchVars
    /\ UNCHANGED <<storeVars, clock, email_queue, sent_message, platVars,
                   ackLog, skipLog, presented, cleaned, discarded, cntVars>>

\* a send failure that still records the attempt: a row without the
\* platform's message id
SendFail_keeps_row ==
    /\ pc = "fanout"
    /\ LET g == NextGroup
       IN  /\ should_send_to_group(g, cur.account_label)
           /\ ~email_sent_to_group(cur.email_id, g.id)
           /\ sendLog' = sendLog \cup {Decision(g, "failed")}
           /\ email_notifications' = add_notification(cur.email_id, g.id, 0)
           /\ AfterGroup(g)
    /\ UNCHANGED <<unitVars, lifeVars, lastCaught, simpleVars>>
    /\ UNCHANGED watchVars
    /\ UNCHANGED <<emails, groups, seq_emails, seq_groups, clock, email_queue,
                   sent_message, platVars, ackLog, skipLog, presented, cleaned,
                   discarded, cntVars>>

\* bot.send_message raises: logged, None returned, the loop goes on
SendFail ==
    /\ pc = "fanout"
    /\ LET g == NextGroup
       IN  /\ should_send_to_group(g, cur.account_label)
           /\ ~email_sent_to_group(cur.email_id, g.id)
           /\ sendLog' = sendLog \cup {Decision(g, "failed")}
           /\ AfterGroup(g)
    /\ UNCHANGED <<unitVars, lifeVars, lastCaught, simpleVars>>
    /\ UNCHANGED watchVars
    /\ UNCHANGED <<storeVars, clock, email_queue, sent_message, platVars,
                   ackLog, skipLog, presented, cleaned, discarded, cntVars>>

\* send_email_notification after the send: add_notification
AddNotification ==
    /\ pc = "sent"
    /\ email_notifications' =
            add_notification(cur.email_id, sent_message.group_id,
                             sent_message.message_id)
    /\ sent_message' = SentNone
    /\ AfterGroup(NextGroup)
    /\ UNCHANGED <<unitVars, lifeVars, lastCaught, simpleVars>>
    /\ UNCHANGED watchVars
    /\ UNCHANGED <<emails, groups, seq_emails, seq_groups, clock, email_queue,
                   platVars, ackLog, sendLog, skipLog, presented, cleaned, discarded,
                   cntVars>>

\* what the handler of the while loop caught: which call raised, and on
\* which item of the queue, counted from the first the watchers put
Caught(kind) ==
    [kind |-> kind,
     item |-> nEmit - Len(email_queue) + (IF pc = "get" THEN 1 ELSE 0)]

\* an exception that leaves the while loop: the thread of the dispatcher ends
item_raises_ends_loop(kind) ==
    /\ \/ kind = "queue_empty" /\ pc = "get" /\ email_queue = <<>>
       \/ /\ kind \in {"email_exists", "get_active_groups"}
          /\ pc = "get" /\ email_queue # <<>>
       \/ kind = "email_sent_to_group" /\ pc = "fanout"
       \/ kind = "add_notification" /\ pc = "sent"
    /\ lastCaught' = {Caught(kind)}
    /\ pc' = "stopped"
    /\ UNCHANGED <<cur, active_groups, todo, sent_message>>
    /\ UNCHANGED <<storeVars, clock, email_queue, platVars, histVars, cntVars,
                   watchVars, unitVars, lifeVars, simpleVars>>

\* process_email_queue, one item that ends in an exception: get(timeout=1) on
\* an empty queue raises queue.Empty; email_exists, get_active_groups and
\* email_sent_to_group run their SQL without a try, so that a store error
\* reaches the except of the while loop, which logs it; add_notification
\* catches its own and returns None
item_raises(kind) ==
    /\ lastCaught' = {Caught(kind)}
    /\ \/ /\ kind = "queue_empty"
          /\ pc = "get" /\ email_queue = <<>>
          /\ UNCHANGED <<storeVars, email_queue, dispVars, presented>>
       \/ /\ kind \in {"email_exists", "get_active_groups"}
          /\ pc = "get" /\ email_queue # <<>>
          /\ LET email_data == Head(email_queue)
                 parsed == parse_email(email_data.raw_email)
                 h == generate_email_hash(parsed.message_id, parsed.sender,
                                          parsed.subject)
             IN  /\ parsed.ok /\ ~parsed.is_spam
                 /\ presented' = Presented(h)
                 /\ IF kind = "email_exists"
                    THEN UNCHANGED <<emails, seq_emails>>
                    ELSE /\ ~email_exists(parsed.message_id, parsed.sender,
                                          parsed.subject)
                         /\ emails' = add_email_rows(parsed.message_id,
                                          email_data.account_label, parsed.sender,
                                          parsed.subject)
                         /\ seq_emails' = IF emails' = emails THEN seq_emails
                                          ELSE seq_emails + 1
          /\ email_queue' = Tail(email_queue)
          /\ UNCHANGED <<groups, email_notifications, seq_groups, dispVars>>
       \/ /\ kind = "email_sent_to_group"
          /\ pc = "fanout"
          /\ should_send_to_group(NextGroup, cur.account_label)
          /\ todo' = {} /\ pc' = "get" /\ cur' = CurNone /\ active_groups' = {}
          /\ UNCHANGED <<storeVars, email_queue, sent_message, presented>>
       \/ /\ kind = "add_notification"
          /\ pc = "sent"
          /\ sent_message' = SentNone
          /\ AfterGroup(NextGroup)
          /\ UNCHANGED <<storeVars, email_queue, presented>>
    /\ UNCHANGED <<clock, platVars, ackLog, sendLog, skipLog, cleaned, discarded,
                   cntVars, watchVars, unitVars, lifeVars, simpleVars>>

\* lines 338-346 and 251-256: run_until_complete(send_email_notification(...))
\* awaits bot.send_message with no timeout of its own; a request the platform
\* never answers keeps the dispatcher's thread in this call
send_hangs ==
    /\ pc = "fanout"
    /\ should_send_to_group(NextGroup, cur.account_label)
    /\ ~email_sent_to_group(cur.email_id, NextGroup.id)
    /\ pc' = "sending"
    /\ UNCHANGED <<cur, active_groups, todo, sent_message>>
    /\ UNCHANGED <<storeVars, clock, email_queue, platVars, histVars, cntVars,
                   watchVars, unitVars, lifeVars, lastCaught, simpleVars>>

\* ------------------------------------------------- subscription commands
\* subscribe_command: add_group(chat_id, chat_title, user_id), no filter given
Subscribe(chat_id) ==
    /\ nCmds < MaxCmds
    /\ nCmds' = nCmds + 1
    /\ groups' = add_group(chat_id, NoFilter)
    /\ seq_groups' = seq_groups + 1
    /\ UNCHANGED <<unitVars, lifeVars, lastCaught, simpleVars>>
    /\ UNCHANGED watchVars
    /\ UNCHANGED <<emails, email_notifications, seq_emails, clock, email_queue,
                   dispVars, platVars, histVars, nEmit, nRestarts>>

\* unsubscribe_command: remove_group
Unsubscribe(chat_id) ==
    /\ nCmds < MaxCmds
    /\ nCmds' = nCmds + 1
    /\ groups' = remove_group(chat_id)
    /\ UNCHANGED <<unitVars, lifeVars, lastCaught, simpleVars>>
    /\ UNCHANGED watchVars
    /\ UNCHANGED <<emails, email_notifications, seq_emails, seq_groups, clock,
                   email_queue, dispVars, platVars, ackLog, sendLog, skipLog,
                   presented, cleaned, discarded, nEmit, nRestarts>>

\* filter_command with arguments: "clear" stores NULL, a list stores the list;
\* a chat with no group row gets the "not subscribed" reply and nothing changes
SetFilter(chat_id, filter_accounts) ==
    /\ nCmds < MaxCmds
    /\ nCmds' = nCmds + 1
    /\ groups' = IF get_group_by_chat_id(chat_id) = {} THEN groups
                 ELSE update_group_filter(chat_id, filter_accounts)
    /\ UNCHANGED <<unitVars, lifeVars, lastCaught, simpleVars>>
    /\ UNCHANGED watchVars
    /\ UNCHANGED <<emails, email_notifications, seq_emails, seq_groups, clock,
                   email_queue, dispVars, platVars, ackLog, sendLog, skipLog,
                   presented, cleaned, discarded, nEmit, nRestarts>>

\* --------------------------------------------------------- acknowledgment
\* a user presses Read on a notification that is visible in a chat
Click(chat_id, message_id, user_id) ==
    /\ <<chat_id, message_id>> \in chat_messages
    /\ Len(callback_queue) + Len(ackLog) < MaxAcks
    /\ callback_queue' = Append(callback_queue,
            [chat_id |-> chat_id, message_id |-> message_id, user_id |-> user_id])
    /\ UNCHANGED <<unitVars, lifeVars, lastCaught, simpleVars>>
    /\ UNCHANGED watchVars
    /\ UNCHANGED <<storeVars, clock, email_queue, dispVars, nextMsgId, chat_messages,
                   histVars, cntVars>>

\* the chat a notification row was sent to
ChatOf(n) ==
    (CHOOSE s \in sendLog : s.email_id = n.email_id /\ s.group_id = n.group_id).chat_id

\* the notification rows of the message that was pressed: the rows sent to that
\* chat under that message id
TargetRows(chat_id, message_id) ==
    {n \in email_notifications :
        n.telegram_message_id = message_id /\ ChatOf(n) = chat_id}

\* a handler that says nothing when the delete raises
read_button_answers_silent(ok, visible) ==
    IF ~ok THEN <<"already">>
    ELSE IF visible THEN <<"read">> ELSE <<>>

\* handle_read_button, lines 221-232: the query.answer calls it makes. False
\* from the store: "already handled"; True and the message deleted: "read";
\* True and delete raises TelegramError: the error alert
read_button_answers(ok, visible) ==
    IF ~ok THEN <<"already">>
    ELSE IF visible THEN <<"read">> ELSE <<"delete_error">>

\* handle_read_button: mark_notification_handled, then delete and answer.
\* store_error: the UPDATE raises, which mark_notification_handled turns into False
HandleRead(store_error) ==
    /\ callback_queue # <<>>
    /\ LET query == Head(callback_queue)
           telegram_message_id == query.message_id
           ok == ~store_error /\ mark_rowcount(telegram_message_id) > 0
           visible == <<query.chat_id, query.message_id>> \in chat_messages
           target == TargetRows(query.chat_id, query.message_id)
       IN  /\ callback_queue' = Tail(callback_queue)
           /\ email_notifications' =
                IF store_error THEN email_notifications
                ELSE mark_notification_handled(telegram_message_id, query.user_id)
           /\ chat_messages' =
                IF ok THEN chat_messages \ {<<query.chat_id, query.message_id>>}
                ELSE chat_messages
           /\ ackLog' = Append(ackLog,
                [chat_id |-> query.chat_id, message_id |-> query.message_id,
                 user_id |-> query.user_id, handled |-> ok,
                 store_error |-> store_error,
                 target |-> {<<n.email_id, n.group_id>> : n \in target},
                 was_pending |-> \E n \in target : n.is_handled = 0,
                 answers |-> read_button_answers(ok, visible)])
    /\ UNCHANGED <<unitVars, lifeVars, lastCaught, simpleVars>>
    /\ UNCHANGED watchVars
    /\ UNCHANGED <<emails, groups, seq_emails, seq_groups, clock, email_queue,
                   dispVars, nextMsgId, sendLog, skipLog, presented, cleaned, discarded,
                   cntVars>>

\* ------------------------------------------------------ time and restart
\* one cleanup horizon (30 days) passes
Tick ==
    /\ clock < MaxClock
    /\ clock' = clock + 1
    /\ UNCHANGED <<unitVars, lifeVars, lastCaught, simpleVars>>
    /\ UNCHANGED watchVars
    /\ UNCHANGED <<storeVars, email_queue, dispVars, platVars, histVars, cntVars>>

\* the process dies at any point and is started again: EmailNotifierApp.__init__
\* makes a new queue, run() calls cleanup_old_handled_notifications(30) before
\* the dispatcher thread starts
Restart ==
    /\ nRestarts < MaxRestarts
    /\ nRestarts' = nRestarts + 1
    /\ email_queue' = <<>>
    /\ pc' = "get" /\ cur' = CurNone /\ active_groups' = {} /\ todo' = {}
    /\ sent_message' = SentNone
    /\ email_notifications' = cleanup_notifications
    /\ emails' = cleanup_emails
    /\ cleaned' = cleaned \cup {e.email_hash : e \in emails \ cleanup_emails}
    /\ thread' = "none" /\ client' = "none" /\ last_seen_uids' = {}
    /\ connectUids' = {} /\ connected_once' = FALSE /\ arrived' = {}
    /\ emitLog' = {} /\ fetchFailed' = {}
    /\ UNCHANGED <<unitVars, lifeVars, lastCaught, simpleVars>>
    /\ UNCHANGED <<mailbox, nextUid>>
    /\ UNCHANGED <<groups, seq_emails, seq_groups, clock, platVars,
                   ackLog, sendLog, skipLog, presented, discarded, nEmit, nCmds>>

\* ------------------------------------------------------- imap_watcher.py
\* the message the server holds under a UID, as RFC822 bytes
RawOf(uid) ==
    [message_id |-> IF uid % 2 = 1 THEN "a" ELSE "b", sender |-> "bob",
     subject |-> "s", body |-> "hi"]

\* the orders a for loop can walk a set in
SeqsOf(S) ==
    {q \in [1..Cardinality(S) -> S] : \A i, j \in 1..Cardinality(S) :
                                        q[i] = q[j] => i = j}

\* the server takes a new message into the INBOX under the next UID
Deliver ==
    /\ nextUid <= MaxUid
    /\ mailbox' = mailbox \cup {nextUid}
    /\ nextUid' = nextUid + 1
    /\ arrived' = IF connected_once THEN arrived \cup {nextUid} ELSE arrived
    /\ UNCHANGED <<unitVars, lifeVars, lastCaught, simpleVars>>
    /\ UNCHANGED <<thread, client, last_seen_uids, connectUids, connected_once,
                   emitLog, fetchFailed>>
    /\ UNCHANGED <<storeVars, clock, email_queue, dispVars, platVars, histVars,
                   cntVars>>

\* another mail client deletes a message from the INBOX; its UID is not used again
Expunge(uid) ==
    /\ uid \in mailbox
    /\ mailbox' = mailbox \ {uid}
    /\ UNCHANGED <<unitVars, lifeVars, lastCaught, simpleVars>>
    /\ UNCHANGED <<nextUid, thread, client, last_seen_uids, connectUids,
                   connected_once, arrived, emitLog, fetchFailed>>
    /\ UNCHANGED <<storeVars, clock, email_queue, dispVars, platVars, histVars,
                   cntVars>>

\* connect(), lines 57-59: the watermark is what search(['ALL']) returns
connect_watermark == mailbox

\* connect() runs to its end: IMAPClient(), login, select_folder, search
connect_ok ==
    /\ client' = "ready"
    /\ last_seen_uids' = connect_watermark
    /\ connectUids' = mailbox
    /\ connected_once' = TRUE

\* connect() raises after self.client is assigned and before the session is
\* usable (login or select_folder failed, or the socket died): the client
\* stays in self.client
connect_not_logged_in ==
    /\ client' = "broken"
    /\ UNCHANGED <<last_seen_uids, connectUids, connected_once>>

\* connect() raises in search(['ALL']) on a session that is logged in with the
\* INBOX selected (the server answers NO): the client stays in self.client and
\* line 59 never runs
connect_search_fails ==
    /\ client' = "ready"
    /\ connectUids' = mailbox
    /\ connected_once' = TRUE
    /\ UNCHANGED last_seen_uids

\* start(): with use_idle it calls connect() and catches every exception, then
\* starts idle_loop or polling_loop; without use_idle it starts polling_loop
start(outcome) ==
    /\ thread = "none"
    /\ thread' = "running"
    /\ CASE outcome = "connected" -> connect_ok
         [] outcome = "no_client" ->
                UNCHANGED <<client, last_seen_uids, connectUids, connected_once>>
         [] outcome = "not_logged_in" -> connect_not_logged_in
         [] outcome = "search_failed" -> connect_search_fails
    /\ UNCHANGED <<unitVars, lifeVars, lastCaught, simpleVars>>
    /\ UNCHANGED <<mailbox, nextUid, arrived, emitLog, fetchFailed>>
    /\ UNCHANGED <<storeVars, clock, email_queue, dispVars, platVars, histVars,
                   cntVars>>

\* idle_loop / check_new_emails: "if not self.client: self.connect()" succeeds
connect ==
    /\ thread = "running"
    /\ client = "none"
    /\ connect_ok
    /\ UNCHANGED <<unitVars, lifeVars, lastCaught, simpleVars>>
    /\ UNCHANGED <<mailbox, nextUid, thread, arrived, emitLog, fetchFailed>>
    /\ UNCHANGED <<storeVars, clock, email_queue, dispVars, platVars, histVars,
                   cntVars>>

\* the same connect() raises. An IMAPClientError makes check_new_emails call
\* disconnect(), and so does any exception in idle_loop: the client is None as
\* before. A ConnectionError is retried and ends as a RetryError, which
\* check_new_emails only logs: a client assigned meanwhile stays
connect_fails ==
    /\ thread = "running"
    /\ client = "none"
    /\ connect_not_logged_in
    /\ UNCHANGED <<unitVars, lifeVars, lastCaught, simpleVars>>
    /\ UNCHANGED <<mailbox, nextUid, thread, arrived, emitLog, fetchFailed>>
    /\ UNCHANGED <<storeVars, clock, email_queue, dispVars, platVars, histVars,
                   cntVars>>

\* a check that never moves the watermark
updated_watermark_stale(current_uids, new_uids) == last_seen_uids

\* check_new_emails, lines 91 and 116: the watermark moves only when there
\* are new UIDs
updated_watermark(current_uids, new_uids) ==
    IF new_uids # {} THEN current_uids ELSE last_seen_uids

\* polling_loop / idle_loop: check_new_emails whose search succeeds, then
\* email_callback for each fetched message. fetched: the new UIDs whose fetch
\* returned the message; walk: the order of the for loop
\* the new_emails list of one check, were the first failing fetch to end the
\* whole check: nothing is handed to the callback
new_emails_fail_whole(fetched, walk) ==
    IF fetched # mailbox \ last_seen_uids
    THEN <<>>
    ELSE [i \in 1..Len(walk) |->
             [account_label |-> "A", raw_email |-> RawOf(walk[i])]]

\* the new_emails list of one check: one item per UID whose fetch returned,
\* in the order the for loop walked the set; a UID whose fetch raised is
\* logged and left out
new_emails(fetched, walk) ==
    [i \in 1..Len(walk) |->
        [account_label |-> "A", raw_email |-> RawOf(walk[i])]]

search_and_emit(fetched, walk) ==
    LET current_uids == mailbox
        new_uids == current_uids \ last_seen_uids
    IN  /\ fetched \subseteq new_uids
        /\ walk \in SeqsOf(fetched)
        /\ last_seen_uids' = updated_watermark(current_uids, new_uids)
        /\ email_queue' = email_queue \o new_emails(fetched, walk)
        /\ emitLog' = emitLog \cup
             {[uid |-> u,
               n |-> 1 + Cardinality({e \in emitLog : e.uid = u}),
               at_connect |-> u \in connectUids,
               in_current |-> u \in mailbox,
               in_watermark |-> u \in last_seen_uids,
               skipped |-> new_uids \ fetched] : u \in fetched}
        /\ fetchFailed' = fetchFailed \cup (new_uids \ fetched)

\* the loops with the thread as a whole: one check that finds new UIDs
check_new_emails(fetched, walk) ==
    /\ thread = "running"
    /\ client = "ready"
    /\ mailbox \ last_seen_uids # {}
    /\ search_and_emit(fetched, walk)
    /\ UNCHANGED <<unitVars, lifeVars, lastCaught, simpleVars>>
    /\ UNCHANGED <<mailbox, nextUid, thread, client, connectUids, connected_once,
                   arrived>>
    /\ UNCHANGED <<storeVars, clock, dispVars, platVars, histVars, cntVars>>

\* check_new_emails with a client that never finished connect(): the search
\* raises IMAPClientError, disconnect()
check_fails_not_logged_in ==
    /\ thread = "running"
    /\ client = "broken"
    /\ client' = "none"
    /\ UNCHANGED <<unitVars, lifeVars, lastCaught, simpleVars>>
    /\ UNCHANGED <<mailbox, nextUid, thread, last_seen_uids, connectUids,
                   connected_once, arrived, emitLog, fetchFailed>>
    /\ UNCHANGED <<storeVars, clock, email_queue, dispVars, platVars, histVars,
                   cntVars>>

\* search, idle, idle_check or noop raises on a working connection: disconnect()
connection_error ==
    /\ thread = "running"
    /\ client = "ready"
    /\ client' = "none"
    /\ UNCHANGED <<unitVars, lifeVars, lastCaught, simpleVars>>
    /\ UNCHANGED <<mailbox, nextUid, thread, last_seen_uids, connectUids,
                   connected_once, arrived, emitLog, fetchFailed>>
    /\ UNCHANGED <<storeVars, clock, email_queue, dispVars, platVars, histVars,
                   cntVars>>

\* ------------------------------------- the watcher thread beside stop()
\* The same loops statement by statement, as stop() on the caller's thread
\* interleaves with them. "at" is where the thread stands: "top" (the while
\* test), "connecting" (inside connect(), self.client of this call not yet
\* assigned), "idling" (idle() and idle_check), "searching" (check_new_emails
\* before its search), "sleeping" (stop_event.wait or time.sleep), "exited"

\* start(), lines 186-217: with use_idle, connect() and then idle_loop when it
\* returned (an IMAPClient always has the attribute idle), polling_loop when
\* it raised; without use_idle, polling_loop
start_thread(outcome) ==
    /\ thread = "none"
    /\ stopping = "none"
    /\ stop_event' = FALSE
    /\ IF use_idle
       THEN CASE outcome = "connected" ->
                    connect_ok /\ thread_target' = "idle"
              [] outcome = "no_client" ->
                    /\ UNCHANGED <<client, last_seen_uids, connectUids,
                                   connected_once>>
                    /\ thread_target' = "polling"
              [] outcome = "not_logged_in" ->
                    connect_not_logged_in /\ thread_target' = "polling"
              [] outcome = "search_failed" ->
                    connect_search_fails /\ thread_target' = "polling"
       ELSE /\ outcome = "no_client"
            /\ UNCHANGED <<client, last_seen_uids, connectUids, connected_once>>
            /\ thread_target' = "polling"
    /\ thread' = "running"
    /\ at' = "top"
    /\ UNCHANGED <<use_idle, has_idle, stopping, after_stop>>
    /\ UNCHANGED <<mailbox, nextUid, arrived, emitLog, fetchFailed>>
    /\ UNCHANGED <<storeVars, clock, email_queue, dispVars, platVars, histVars,
                   cntVars, unitVars, lastCaught, simpleVars>>

\* "while not self.stop_event.is_set()" ends the loop and the thread
loop_exit ==
    /\ at = "top"
    /\ stop_event
    /\ at' = "exited"
    /\ thread' = "finished"
    /\ UNCHANGED <<use_idle, has_idle, thread_target, stop_event, stopping,
                   after_stop>>
    /\ UNCHANGED <<mailbox, nextUid, client, last_seen_uids, connectUids,
                   connected_once, arrived, emitLog, fetchFailed>>
    /\ UNCHANGED <<storeVars, clock, email_queue, dispVars, platVars, histVars,
                   cntVars, unitVars, lastCaught, simpleVars>>

\* "if not self.client: self.connect()", idle_loop 133-134 and
\* check_new_emails 81-82: the thread enters connect()
loop_connect_begin ==
    /\ at = "top"
    /\ ~stop_event
    /\ client = "none"
    /\ at' = "connecting"
    /\ UNCHANGED <<use_idle, has_idle, thread_target, stop_event, stopping,
                   after_stop>>
    /\ UNCHANGED <<mailbox, nextUid, thread, client, last_seen_uids, connectUids,
                   connected_once, arrived, emitLog, fetchFailed>>
    /\ UNCHANGED <<storeVars, clock, email_queue, dispVars, platVars, histVars,
                   cntVars, unitVars, lastCaught, simpleVars>>

\* a loop whose condition is not read again: the body starts whatever
\* stop_event says
loop_enter_ignores_stop ==
    /\ at = "top"
    /\ client # "none"
    /\ at' = IF thread_target = "idle" THEN "idling" ELSE "searching"
    /\ UNCHANGED <<use_idle, has_idle, thread_target, stop_event, stopping,
                   after_stop>>
    /\ UNCHANGED <<mailbox, nextUid, thread, client, last_seen_uids, connectUids,
                   connected_once, arrived, emitLog, fetchFailed>>
    /\ UNCHANGED <<storeVars, clock, email_queue, dispVars, platVars, histVars,
                   cntVars, unitVars, lastCaught, simpleVars>>

\* the loop body starts with a client in self.client
loop_enter ==
    /\ at = "top"
    /\ ~stop_event
    /\ client # "none"
    /\ at' = IF thread_target = "idle" THEN "idling" ELSE "searching"
    /\ UNCHANGED <<use_idle, has_idle, thread_target, stop_event, stopping,
                   after_stop>>
    /\ UNCHANGED <<mailbox, nextUid, thread, client, last_seen_uids, connectUids,
                   connected_once, arrived, emitLog, fetchFailed>>
    /\ UNCHANGED <<storeVars, clock, email_queue, dispVars, platVars, histVars,
                   cntVars, unitVars, lastCaught, simpleVars>>

\* connect() returns: the client is assigned, logged in, the watermark read
loop_connect_ok ==
    /\ at = "connecting"
    /\ connect_ok
    /\ at' = IF thread_target = "idle" THEN "idling" ELSE "searching"
    /\ after_stop' = IF stopping = "returned"
                     THEN after_stop \cup {"connected"} ELSE after_stop
    /\ UNCHANGED <<use_idle, has_idle, thread_target, stop_event, stopping>>
    /\ UNCHANGED <<mailbox, nextUid, thread, arrived, emitLog, fetchFailed>>
    /\ UNCHANGED <<storeVars, clock, email_queue, dispVars, platVars, histVars,
                   cntVars, unitVars, lastCaught, simpleVars>>

\* connect() raises. idle_loop, 157-160: disconnect(), sleep. check_new_emails,
\* 118-123: disconnect() on ConnectionError, SSLError, IMAPClientError; a
\* RetryError (three ConnectionErrors) is only logged, and the client a failed
\* attempt assigned is left in self.client
loop_connect_raises(left) ==
    /\ at = "connecting"
    /\ thread_target = "idle" => left = "none"
    /\ client' = left
    /\ at' = "sleeping"
    /\ UNCHANGED <<use_idle, has_idle, thread_target, stop_event, stopping,
                   after_stop>>
    /\ UNCHANGED <<mailbox, nextUid, thread, last_seen_uids, connectUids,
                   connected_once, arrived, emitLog, fetchFailed>>
    /\ UNCHANGED <<storeVars, clock, email_queue, dispVars, platVars, histVars,
                   cntVars, unitVars, lastCaught, simpleVars>>

\* idle_loop, 137-160: idle() raises CapabilityError on a server without IDLE,
\* and AttributeError when stop() has set self.client to None: disconnect(),
\* sleep. Else idle_check returns responses (then check_new_emails), or times
\* out (idle_done, noop), or the connection fails (disconnect(), sleep)
idle_wait(outcome) ==
    /\ at = "idling"
    /\ IF client # "ready" \/ ~has_idle \/ outcome = "error"
       THEN client' = "none" /\ at' = "sleeping"
       ELSE /\ UNCHANGED client
            /\ at' = IF outcome = "responses" THEN "searching" ELSE "top"
    /\ UNCHANGED <<use_idle, has_idle, thread_target, stop_event, stopping,
                   after_stop>>
    /\ UNCHANGED <<mailbox, nextUid, thread, last_seen_uids, connectUids,
                   connected_once, arrived, emitLog, fetchFailed>>
    /\ UNCHANGED <<storeVars, clock, email_queue, dispVars, platVars, histVars,
                   cntVars, unitVars, lastCaught, simpleVars>>

\* check_new_emails from its search on, and email_callback for what it returns
loop_check(fetched, walk) ==
    /\ at = "searching"
    /\ client = "ready"
    /\ search_and_emit(fetched, walk)
    /\ at' = IF thread_target = "idle" THEN "top" ELSE "sleeping"
    /\ after_stop' = IF stopping = "returned" /\ fetched # {}
                     THEN after_stop \cup {"emitted"} ELSE after_stop
    /\ UNCHANGED <<use_idle, has_idle, thread_target, stop_event, stopping>>
    /\ UNCHANGED <<mailbox, nextUid, thread, client, connectUids, connected_once,
                   arrived>>
    /\ UNCHANGED <<storeVars, clock, dispVars, platVars, histVars, cntVars,
                   unitVars, lastCaught, simpleVars>>

\* check_new_emails whose search raises: on a connection that failed or never
\* logged in (disconnect()), or with self.client None after stop() (logged)
loop_check_raises ==
    /\ at = "searching"
    /\ client' = "none"
    /\ at' = IF thread_target = "idle" THEN "top" ELSE "sleeping"
    /\ UNCHANGED <<use_idle, has_idle, thread_target, stop_event, stopping,
                   after_stop>>
    /\ UNCHANGED <<mailbox, nextUid, thread, last_seen_uids, connectUids,
                   connected_once, arrived, emitLog, fetchFailed>>
    /\ UNCHANGED <<storeVars, clock, email_queue, dispVars, platVars, histVars,
                   cntVars, unitVars, lastCaught, simpleVars>>

\* stop_event.wait(check_interval) or time.sleep(10) returns
loop_wake ==
    /\ at = "sleeping"
    /\ at' = "top"
    /\ UNCHANGED <<use_idle, has_idle, thread_target, stop_event, stopping,
                   after_stop>>
    /\ UNCHANGED <<mailbox, nextUid, thread, client, last_seen_uids, connectUids,
                   connected_once, arrived, emitLog, fetchFailed>>
    /\ UNCHANGED <<storeVars, clock, email_queue, dispVars, platVars, histVars,
                   cntVars, unitVars, lastCaught, simpleVars>>

\* stop(), line 223: self.stop_event.set()
stop_set_event ==
    /\ stopping = "none"
    /\ thread # "none"
    /\ stop_event' = TRUE
    /\ stopping' = "joining"
    /\ UNCHANGED <<use_idle, has_idle, thread_target, at, after_stop>>
    /\ UNCHANGED <<watchVars, storeVars, clock, email_queue, dispVars, platVars,
                   histVars, cntVars, unitVars, lastCaught, simpleVars>>

\* lines 225-226: join(timeout=5) returns, the thread ended or not
stop_join ==
    /\ stopping = "joining"
    /\ stopping' = "disconnecting"
    /\ UNCHANGED <<use_idle, has_idle, thread_target, at, stop_event, after_stop>>
    /\ UNCHANGED <<watchVars, storeVars, clock, email_queue, dispVars, platVars,
                   histVars, cntVars, unitVars, lastCaught, simpleVars>>

\* line 228, disconnect(): logout() returns or raises, self.client = None
stop_disconnect ==
    /\ stopping = "disconnecting"
    /\ client' = "none"
    /\ stopping' = "returned"
    /\ UNCHANGED <<use_idle, has_idle, thread_target, at, stop_event, after_stop>>
    /\ UNCHANGED <<mailbox, nextUid, thread, last_seen_uids, connectUids,
                   connected_once, arrived, emitLog, fetchFailed>>
    /\ UNCHANGED <<storeVars, clock, email_queue, dispVars, platVars, histVars,
                   cntVars, unitVars, lastCaught, simpleVars>>

\* line 71: logout() on a connection whose server does not answer; the client
\* was made without a timeout
stop_logout_blocks ==
    /\ stopping = "disconnecting"
    /\ client # "none"
    /\ stopping' = "blocked"
    /\ UNCHANGED <<use_idle, has_idle, thread_target, at, stop_event, after_stop>>
    /\ UNCHANGED <<watchVars, storeVars, clock, email_queue, dispVars, platVars,
                   histVars, cntVars, unitVars, lastCaught, simpleVars>>

\* ------------------------------------------------------------ bot_simple.py
\* email_key = f"{parsed['message_id']}_{parsed['subject']}"
email_key(message_id, subject) == message_id \o "_" \o subject

\* subscribe_command: self.active_groups.add(chat_id)
simple_subscribe_command(chat_id) ==
    /\ nCmds < MaxCmds
    /\ nCmds' = nCmds + 1
    /\ simple_active_groups' = simple_active_groups \cup {chat_id}
    /\ UNCHANGED <<processed_emails, broadcastLog, nEmit, nRestarts>>
    /\ UNCHANGED <<storeVars, clock, email_queue, dispVars, platVars, histVars,
                   watchVars, unitVars, lifeVars, lastCaught>>

\* unsubscribe_command: self.active_groups.remove(chat_id) if it is there
simple_unsubscribe_command(chat_id) ==
    /\ nCmds < MaxCmds
    /\ nCmds' = nCmds + 1
    /\ simple_active_groups' = simple_active_groups \ {chat_id}
    /\ UNCHANGED <<processed_emails, broadcastLog, nEmit, nRestarts>>
    /\ UNCHANGED <<storeVars, clock, email_queue, dispVars, platVars, histVars,
                   watchVars, unitVars, lifeVars, lastCaught>>

\* process_email_queue, one item: parse, spam check, the key looked up in
\* processed_emails and added, the set cleared when it has grown beyond the
\* limit, then send_email_notification to every subscribed chat; a chat the
\* platform answers "chat not found" for is dropped from active_groups
simple_process_email_queue(gone) ==
    /\ email_queue # <<>>
    /\ gone \subseteq simple_active_groups
    /\ LET email_data == Head(email_queue)
           parsed == parse_email(email_data.raw_email)
           key == email_key(parsed.message_id, parsed.subject)
           added == processed_emails \cup {key}
       IN  /\ email_queue' = Tail(email_queue)
           /\ IF ~parsed.ok \/ parsed.is_spam \/ key \in processed_emails
              THEN /\ gone = {}
                   /\ UNCHANGED simpleVars
              ELSE /\ processed_emails' =
                        IF Cardinality(added) > MaxProcessed THEN {} ELSE added
                   /\ simple_active_groups' = simple_active_groups \ gone
                   /\ broadcastLog' =
                        IF simple_active_groups = {} THEN broadcastLog
                        ELSE Append(broadcastLog, key)
    /\ UNCHANGED <<storeVars, clock, dispVars, platVars, histVars, cntVars,
                   watchVars, unitVars, lifeVars, lastCaught>>

\* ---------------------------------------------------------- specifications
Emit == nEmit < MaxEmit /\ \E label \in Labels, raw \in RawEmails : Enqueue(label, raw)
SubscribeCmd == \E c \in Chats : Subscribe(c)
UnsubscribeCmd == \E c \in Chats : Unsubscribe(c)
FilterCmd == \E c \in Chats, f \in Filters : SetFilter(c, f)
ReadPressed == \E c \in Chats, m \in 1..MaxEmit, u \in Users : Click(c, m, u)
ReadButton == \E e \in BOOLEAN : HandleRead(e)

\* the dispatcher with the subscription commands, across restarts
Next ==
    \/ Emit
    \/ Dequeue
    \/ SkipGroup
    \/ SendOk
    \/ SendFail
    \/ AddNotification
    \/ SubscribeCmd
    \/ UnsubscribeCmd
    \/ FilterCmd
    \/ Tick
    \/ Restart

Spec == Init /\ [][Next]_vars

\* the acknowledgment handler beside the dispatcher and the subscription
\* commands: the chats are subscribed, one account delivers one message
AckRawEmails == {r \in RawEmails : r.message_id = "a" /\ r.subject = "s"}
EmitAck == nEmit < MaxAckEmit /\ \E raw \in AckRawEmails : Enqueue("A", raw)

InitAck ==
    InitWith({[id |-> c, chat_id |-> c, is_active |-> 1,
               filter_accounts |-> NoFilter] : c \in Chats}, NumChats)

NextAck ==
    \/ EmitAck
    \/ Dequeue
    \/ SkipGroup
    \/ SendOk
    \/ SendFail
    \/ AddNotification
    \/ SubscribeCmd
    \/ UnsubscribeCmd
    \/ FilterCmd
    \/ ReadPressed
    \/ ReadButton
    \/ Tick
    \/ Restart

SpecAck == InitAck /\ [][NextAck]_vars


\* one watcher against its mailbox; the server is reachable again and again
StartOutcomes == {"connected", "no_client", "not_logged_in", "search_failed"}
Start == \E outcome \in StartOutcomes : start(outcome)
ExpungeMsg == \E uid \in 1..MaxUid : Expunge(uid)
CheckNewEmails ==
    \E fetched \in SUBSET (1..MaxUid) :
        \E walk \in SeqsOf(fetched) : check_new_emails(fetched, walk)

NextWatcher ==
    \/ Deliver
    \/ ExpungeMsg
    \/ Start
    \/ connect
    \/ connect_fails
    \/ CheckNewEmails
    \/ check_fails_not_logged_in
    \/ connection_error

SpecWatcher ==
    /\ Init
    /\ [][NextWatcher]_vars
    /\ WF_vars(Start)
    /\ SF_vars(connect)
    /\ SF_vars(CheckNewEmails)
    /\ WF_vars(check_fails_not_logged_in)

\* the whole pipeline across a crash: mailbox, watcher, queue, dispatcher. The
\* chats are subscribed before the run and stay so, every send succeeds, and
\* every thread keeps running
InitPipeline ==
    \E f \in Filters :
        InitWith({[id |-> 1, chat_id |-> 1, is_active |-> 1,
                   filter_accounts |-> NoFilter],
                  [id |-> 2, chat_id |-> 2, is_active |-> 1,
                   filter_accounts |-> f]}, 2)

NextPipeline ==
    \/ Deliver
    \/ Start
    \/ connect
    \/ connect_fails
    \/ CheckNewEmails
    \/ check_fails_not_logged_in
    \/ connection_error
    \/ Dequeue
    \/ SkipGroup
    \/ SendOk
    \/ AddNotification
    \/ Restart

SpecPipeline ==
    /\ InitPipeline
    /\ [][NextPipeline]_vars
    /\ WF_vars(Start)
    /\ SF_vars(connect)
    /\ SF_vars(CheckNewEmails)
    /\ WF_vars(check_fails_not_logged_in)
    /\ WF_vars(Dequeue)
    /\ WF_vars(SkipGroup)
    /\ WF_vars(SendOk)
    /\ WF_vars(AddNotification)

\* the end-to-end scenario: the watcher of account A against its mailbox, the
\* dispatcher, and the users of the chats; chat 1 is subscribed without a
\* filter, chat 2 with the filter ["B"]
InitScenario ==
    InitWith({[id |-> 1, chat_id |-> 1, is_active |-> 1,
               filter_accounts |-> NoFilter],
              [id |-> 2, chat_id |-> 2, is_active |-> 1,
               filter_accounts |-> {"B"}]}, 2)

NextScenario ==
    \/ Deliver
    \/ Start
    \/ connect
    \/ connect_fails
    \/ CheckNewEmails
    \/ check_fails_not_logged_in
    \/ connection_error
    \/ Dequeue
    \/ SkipGroup
    \/ SendOk
    \/ SendFail
    \/ AddNotification
    \/ ReadPressed
    \/ ReadButton

SpecScenario == InitScenario /\ [][NextScenario]_vars

\* the store under several callers of add_email, each on its own connection
CallRawEmails == {r \in RawEmails : r # Malformed /\ r.subject = "s"}
AddEmailCall ==
    \E c \in Callers, l \in Labels, r \in CallRawEmails : add_email_call(c, l, r)
AddEmailSelect == \E c \in Callers : add_email_select(c)
AddEmailInsert == \E c \in Callers : add_email_insert(c)
AddEmailRaises == \E c \in Callers : add_email_raises(c)

NextStore ==
    \/ AddEmailCall
    \/ AddEmailSelect
    \/ AddEmailInsert
    \/ AddEmailRaises

SpecStore == Init /\ [][NextStore]_vars

\* the parser on its own: parse_email on one message, lines 28-37, under the
\* parser's configuration
max_preview_length_default == 600
PreviewLengths == 0..MaxPreviewLength \cup {max_preview_length_default}
KeywordLists == {{}, spam_keywords_default}
ParserSenders == {"bob@x.com", "mailer-daemon@x.com", "No-Reply@x.com"}
ParserSubjects == {"s", "auto", "Out of Office"}
ParserBodies ==
    {"", "hi", "reply soon", "I am out of office", "ask the postmaster",
     "click to unsubscribe now", "see https://a.b/c?d now",
     "http://x.y/zzzzzzzzzzzzzzzz"}

NoOutput == [stage |-> "start", body_preview |-> "", is_spam |-> FALSE]

InitParser ==
    /\ InitProgram({}, 0)
    /\ use_idle = TRUE /\ has_idle = TRUE
    /\ parser_in \in [max_preview_length : PreviewLengths,
                      spam_keywords : {init_spam_keywords(l) : l \in KeywordLists},
                      sender : ParserSenders, subject : ParserSubjects,
                      body_text : ParserBodies]
    /\ parser_out = NoOutput

\* line 29: body_preview = self._create_preview(body_text)
ParseCreatePreview ==
    /\ parser_out.stage = "start"
    /\ parser_out' = [parser_out EXCEPT
            !.stage = "preview",
            !.body_preview = create_preview(parser_in.max_preview_length,
                                            parser_in.body_text)]
    /\ UNCHANGED <<storeVars, clock, email_queue, dispVars, platVars, histVars,
                   cntVars, watchVars, lifeVars,
                   lastCaught, simpleVars, calls, parser_in>>

\* line 37: 'is_spam': self._is_spam(sender, subject, body_text)
ParseIsSpam ==
    /\ parser_out.stage = "preview"
    /\ parser_out' = [parser_out EXCEPT
            !.stage = "done",
            !.is_spam = is_spam_text(parser_in.spam_keywords, parser_in.sender,
                                     parser_in.subject, parser_in.body_text)]
    /\ UNCHANGED <<storeVars, clock, email_queue, dispVars, platVars, histVars,
                   cntVars, watchVars, lifeVars,
                   lastCaught, simpleVars, calls, parser_in>>

NextParser ==
    \/ ParseCreatePreview
    \/ ParseIsSpam

SpecParser == InitParser /\ [][NextParser]_vars

\* one watcher with its thread and the caller of stop(), whatever the account's
\* use_idle and the server's IDLE capability; the server is reachable again
\* and again, and the thread is scheduled
StartThread == \E outcome \in StartOutcomes : start_thread(outcome)
LoopConnectRaises == \E left \in {"none", "broken"} : loop_connect_raises(left)
IdleWait == \E outcome \in {"responses", "timeout", "error"} : idle_wait(outcome)
LoopCheck ==
    \E fetched \in SUBSET (1..MaxUid) :
        \E walk \in SeqsOf(fetched) : loop_check(fetched, walk)

InitLife ==
    /\ InitProgram({}, 0)
    /\ parser_in = NULL /\ parser_out = NULL
    /\ use_idle \in BOOLEAN /\ has_idle \in BOOLEAN

NextLife ==
    \/ Deliver
    \/ StartThread
    \/ loop_exit
    \/ loop_connect_begin
    \/ loop_enter
    \/ loop_connect_ok
    \/ LoopConnectRaises
    \/ IdleWait
    \/ LoopCheck
    \/ loop_check_raises
    \/ loop_wake
    \/ stop_set_event
    \/ stop_join
    \/ stop_disconnect
    \/ stop_logout_blocks

SpecLife ==
    /\ InitLife
    /\ [][NextLife]_vars
    /\ WF_vars(StartThread)
    /\ WF_vars(loop_exit)
    /\ WF_vars(loop_connect_begin)
    /\ WF_vars(loop_enter)
    /\ SF_vars(loop_connect_ok)
    /\ WF_vars(IdleWait)
    /\ WF_vars(LoopCheck \/ loop_check_raises)
    /\ WF_vars(loop_wake)
    /\ WF_vars(stop_join)
    /\ WF_vars(stop_disconnect \/ stop_logout_blocks)

\* the dispatcher alone with two subscribed groups, every call of one item
\* succeeding, raising or, for the send, not returning
CaughtKinds ==
    {"queue_empty", "email_exists", "get_active_groups", "email_sent_to_group",
     "add_notification"}

NextDispatch ==
    \/ Emit
    \/ Dequeue
    \/ SkipGroup
    \/ SendOk
    \/ SendFail
    \/ AddNotification
    \/ \E kind \in CaughtKinds : item_raises(kind)
    \/ send_hangs

\* the dispatcher's thread is scheduled as long as it has a step to take
SpecDispatch ==
    /\ InitScenario
    /\ [][NextDispatch]_vars
    /\ WF_vars(\/ Dequeue \/ SkipGroup \/ SendOk \/ SendFail \/ AddNotification
               \/ send_hangs \/ \E kind \in CaughtKinds : item_raises(kind))

\* bot_simple: the watchers' queue, the two commands and the dispatcher
NextSimple ==
    \/ Emit
    \/ \E c \in Chats : simple_subscribe_command(c)
    \/ \E c \in Chats : simple_unsubscribe_command(c)
    \/ \E gone \in SUBSET Chats : simple_process_email_queue(gone)

SpecSimple == Init /\ [][NextSimple]_vars

\* ------------------------------------------------------------------ claims
\* C1: of the acknowledgments of one notification (the message a user pressed
\* in a chat) that was pending when the first of them was processed, none of
\* them hitting a store error, the first returns True and every later one
\* returns False.
C1_ExactlyOneHandled ==
    \A i, j \in 1..Len(ackLog) :
        (/\ i < j
         /\ ackLog[i].chat_id = ackLog[j].chat_id
         /\ ackLog[i].message_id = ackLog[j].message_id
         /\ ackLog[i].was_pending
         /\ ~ackLog[i].store_error /\ ~ackLog[j].store_error)
        => (ackLog[i].handled /\ ~ackLog[j].handled)

\* C2: a Delivery row that is handled and is still stored after a step is the
\* same row after it: still handled, with the same handler and the same
\* handled timestamp.
C2_HandledStaysHandled ==
    [][\A n \in email_notifications :
            n.is_handled = 1 =>
                \A m \in email_notifications' :
                    (m.email_id = n.email_id /\ m.group_id = n.group_id) => m = n]_vars

\* C2 witness: a second user's acknowledgment of the same delivery id was
\* processed, later on the clock, after the first user's had marked the row.
C2_Witness ==
    /\ Len(ackLog) = 2
    /\ ackLog[1].handled /\ ~ackLog[2].store_error
    /\ ackLog[2].message_id = ackLog[1].message_id
    /\ ackLog[2].user_id # ackLog[1].user_id
    /\ \E n \in email_notifications :
            /\ n.telegram_message_id = ackLog[1].message_id
            /\ n.is_handled = 1
            /\ n.handled_by = ackLog[1].user_id
            /\ n.handled_at < clock

C4_IdempotentIngestion ==
    \A p \in presented :
        (p[2] = 2 /\ p[1] \notin cleaned) =>
            /\ Cardinality({e \in emails : e.email_hash = p[1]}) = 1
            /\ \A e \in emails, n1, n2 \in email_notifications :
                    (/\ e.email_hash = p[1]
                     /\ n1.email_id = e.id /\ n2.email_id = e.id
                     /\ ChatOf(n1) = ChatOf(n2)) => n1 = n2

C6_WatermarkCorrect ==
    \A e \in emitLog : ~e.at_connect /\ e.in_current /\ ~e.in_watermark

\* C7: within one run of the watcher no UID is emitted to the queue more than
\* once, whatever the checks, deliveries, deletions, errors and reconnects.
C7_NoUidEmittedTwice ==
    \A e \in emitLog : e.n = 1

\* C7 witness: a message was emitted, the watcher reconnected with it in the
\* mailbox, it was deleted on the server, and a later message was emitted.
C7_Witness ==
    \E e1, e2 \in emitLog :
        /\ e1.uid < e2.uid
        /\ e1.uid \in connectUids
        /\ e1.uid \notin mailbox
        /\ ~e2.at_connect

\* C8: every message that appears in the mailbox after the watcher's first
\* connect is eventually emitted, unless its fetch fails or it is deleted
\* from the mailbox first.
C8_EventuallyEmitted ==
    \A u \in 1..MaxUid :
        (u \in arrived) ~> (\/ \E e \in emitLog : e.uid = u
                            \/ u \in fetchFailed
                            \/ u \notin mailbox)

\* the message under this UID has a Delivery row for every chat whose group
\* row is active and lets the watcher's account label through
Delivered(uid) ==
    LET parsed == parse_email(RawOf(uid))
        h == generate_email_hash(parsed.message_id, parsed.sender, parsed.subject)
    IN  \A g \in groups :
            (g.is_active = 1 /\ (g.filter_accounts = NoFilter
                                 \/ "A" \in g.filter_accounts))
            => \E e \in emails, n \in email_notifications :
                    e.email_hash = h /\ n.email_id = e.id /\ n.group_id = g.id

\* C9: every non-spam message the watcher has emitted eventually has a
\* Delivery row for every destination that is active and eligible, also when
\* the process crashes and restarts in between.
C9_AtLeastOnce ==
    \A u \in 1..MaxUid :
        (\E e \in emitLog : e.uid = u) ~> Delivered(u)

C11_RepresentedIsSent ==
    [][(/\ pc = "get"
        /\ email_queue # <<>>
        /\ email_queue' = Tail(email_queue)
        /\ nRestarts' = nRestarts
        /\ LET email_data == Head(email_queue)
               parsed == parse_email(email_data.raw_email)
               h == generate_email_hash(parsed.message_id, parsed.sender,
                                        parsed.subject)
           IN  /\ parsed.ok /\ ~parsed.is_spam
               /\ \E e \in emails, g \in groups :
                    /\ e.email_hash = h
                    /\ g.is_active = 1
                    /\ g.filter_accounts = NoFilter
                       \/ email_data.account_label \in g.filter_accounts
                    /\ \A n \in email_notifications :
                            ~(n.email_id = e.id /\ n.group_id = g.id)
                    /\ \/ \E f \in sendLog :
                            /\ f.email_id = e.id /\ f.group_id = g.id
                            /\ f.outcome = "failed"
                       \/ e.email_account # email_data.account_label)
       => pc' = "fanout"]_vars

\* C12: handle_read_button answers "already handled" only when no store error
\* occurred and the message pressed has a Delivery row, which is handled.
C12_AlreadyOnlyWhenHandled ==
    \A i \in 1..Len(ackLog) :
        ackLog[i].answers = <<"already">> =>
            /\ ~ackLog[i].store_error
            /\ ackLog[i].target # {}
            /\ ~ackLog[i].was_pending

C14_EndToEnd ==
    /\ \A e \in emails :
         LET rows == {n \in email_notifications : n.email_id = e.id}
         IN  /\ \A n \in rows : n.group_id = 1
             /\ Cardinality(rows) <= 1
             /\ (/\ \E s \in sendLog : s.email_id = e.id /\ s.outcome = "sent"
                 /\ ~(pc = "sent" /\ cur.email_id = e.id))
                => Cardinality(rows) = 1
    /\ \A n \in email_notifications :
         \/ n.is_handled = 0 /\ n.handled_by = NULL /\ n.handled_at = NoTime
         \/ \E i \in 1..Len(ackLog) :
              /\ ackLog[i].handled
              /\ ackLog[i].message_id = n.telegram_message_id
              /\ n.is_handled = 1 /\ n.handled_by = ackLog[i].user_id
    /\ \A i \in 1..Len(ackLog) :
         (~ackLog[i].store_error /\ ackLog[i].was_pending) =>
            /\ ackLog[i].handled
            /\ \A n \in email_notifications :
                 <<n.email_id, n.group_id>> \in ackLog[i].target =>
                    n.is_handled = 1 /\ n.handled_by = ackLog[i].user_id

\* C14 witness: the watcher emitted a message of account A, the dispatcher
\* skipped chat 2 for its filter and made the one Delivery for chat 1, and an
\* acknowledgment by u2 moved it to handled.
C14_Witness ==
    /\ emitLog # {}
    /\ \E k \in skipLog : k.chat_id = 2 /\ k.outcome = "filtered"
    /\ \E n \in email_notifications :
         /\ n.group_id = 1 /\ n.is_handled = 1 /\ n.handled_by = "u2"
         /\ \A x \in email_notifications : x.email_id = n.email_id => x = n

\* C15: when the dispatcher takes a spam candidate off the queue, the store
\* (emails, groups, notifications), the chats and the send log stay as they
\* were, and the dispatcher is back at the queue for the next item.
C15_SpamDiscarded ==
    [][(/\ pc = "get"
        /\ email_queue # <<>>
        /\ email_queue' = Tail(email_queue)
        /\ nRestarts' = nRestarts
        /\ LET raw_email == Head(email_queue).raw_email
           IN  /\ raw_email # Malformed
               /\ is_spam(raw_email.sender, raw_email.subject, raw_email.body))
       => /\ UNCHANGED <<storeVars, platVars, sendLog>>
          /\ pc' = "get"]_vars

\* C15 witness: a spam candidate was discarded, nothing of it is stored, and
\* the dispatcher went on to store and deliver another candidate.
C15_Witness ==
    /\ discarded # {}
    /\ nRestarts = 0
    /\ \A e \in emails : e.email_hash \notin discarded
    /\ email_notifications # {}
    /\ pc = "get" /\ email_queue = <<>>

\* C16: when the dispatcher takes a well-formed non-spam candidate, it leaves
\* the emails table alone exactly when a stored Message has the candidate's
\* (message_id, sender, subject); otherwise it inserts the candidate and, when
\* there are active groups, goes on to the fan-out.
C16_FingerprintIdentity ==
    [][(/\ pc = "get"
        /\ email_queue # <<>>
        /\ email_queue' = Tail(email_queue)
        /\ nRestarts' = nRestarts
        /\ parse_email(Head(email_queue).raw_email).ok
        /\ ~parse_email(Head(email_queue).raw_email).is_spam)
       => LET parsed == parse_email(Head(email_queue).raw_email)
              h == generate_email_hash(parsed.message_id, parsed.sender,
                                       parsed.subject)
              stored == \E e \in emails : e.email_hash = h
          IN  /\ stored <=> emails' = emails
              /\ ~stored =>
                    /\ \E e \in emails' : e.email_hash = h
                    /\ get_active_groups # {} => pc' = "fanout"]_vars

\* C17: when two callers of add_email have returned an id for the same
\* fingerprint, the emails table holds exactly one row with that fingerprint
\* and the two ids are the same.
C17_ConcurrentAddEmail ==
    \A c1, c2 \in Callers :
        (/\ c1 # c2
         /\ calls[c1].pc = "returned" /\ calls[c2].pc = "returned"
         /\ calls[c1].ret # NoId /\ calls[c2].ret # NoId
         /\ generate_email_hash(calls[c1].message_id, calls[c1].sender,
                                calls[c1].subject)
            = generate_email_hash(calls[c2].message_id, calls[c2].sender,
                                  calls[c2].subject))
        => /\ Cardinality({e \in emails : e.email_hash =
                    generate_email_hash(calls[c1].message_id, calls[c1].sender,
                                        calls[c1].subject)}) = 1
           /\ calls[c1].ret = calls[c2].ret

C19_PreviewBounded ==
    parser_out.stage # "start" =>
        LET max == parser_in.max_preview_length
            preview == parser_out.body_preview
            elided == url_elide(parser_in.body_text)
        IN  /\ Len(preview) <= max
            /\ Len(elided) > max =>
                 /\ Len(preview) = max
                 /\ Len(preview) >= 3
                 /\ Slice(preview, Len(preview) - 2, Len(preview)) = "..."
            /\ (parser_in.body_text # "" /\ Len(elided) <= max) =>
                 preview = elided

\* C20: a step of handle_read_button changes at most one notification row, and
\* only a row that was sent to the chat in which the user pressed the button;
\* the rows of other chats stay as they were.
C20_OnlyThePressedDelivery ==
    [][(/\ callback_queue # <<>>
        /\ callback_queue' = Tail(callback_queue))
       => LET query == Head(callback_queue)
              changed == email_notifications \ email_notifications'
          IN  /\ Cardinality(changed) <= 1
              /\ \A n \in changed : ChatOf(n) = query.chat_id]_vars

\* C21: a watcher that is started and not stopped eventually stands on a
\* working connection detecting new messages (in a check of the mailbox, or
\* waiting in IDLE on a server that has IDLE), whatever failed before, the
\* server accepting a connection again and again.
C21_NeverGivesUp ==
    (thread = "running" /\ stopping = "none")
        ~> \/ stopping # "none"
           \/ /\ client = "ready"
              /\ \/ at = "searching"
                 \/ at = "idling" /\ has_idle

\* C22: when connect(), the wait or the search raises in idle_loop or
\* polling_loop, the step that handles the error leaves self.client cleared,
\* so that the next iteration connects anew.
C22_ErrorClearsClient ==
    [][(/\ at \in {"connecting", "idling", "searching"}
        /\ at' \in {"sleeping", "top"}
        /\ email_queue' = email_queue
        /\ client' # "ready")
       => client' = "none"]_vars

\* C23: the loop a started watcher runs follows the configuration and the
\* server: polling_loop for an account configured for polling, idle_loop for
\* an IDLE account on a server that has IDLE, polling_loop for an IDLE
\* account on a server without IDLE.
C23_ModeFollowsConfig ==
    thread # "none" =>
        thread_target = (IF use_idle /\ has_idle THEN "idle" ELSE "polling")

\* C24: a check in which the fetch of some new UID raises still hands on one
\* item for every other new UID of the batch, each with the content of its
\* message, records the failed UID, and ends as a successful check: the
\* client stays connected and the thread keeps running.
C24_FetchFailureSkipsOne ==
    [][(fetchFailed' # fetchFailed) =>
         LET new_uids == mailbox \ last_seen_uids
             failed == fetchFailed' \ fetchFailed
             added == SubSeq(email_queue', Len(email_queue) + 1,
                             Len(email_queue'))
         IN  /\ failed \subseteq new_uids
             /\ Len(email_queue') = Len(email_queue)
                                      + Cardinality(new_uids \ failed)
             /\ \A u \in new_uids \ failed :
                    \E i \in 1..Len(added) : added[i].raw_email = RawOf(u)
             /\ client' = "ready"
             /\ thread' = "running"]_vars

\* a batch of two new UIDs, one fetch failed, the other message was emitted
C24_Witness ==
    \E e \in emitLog : e.skipped # {} /\ e.skipped \subseteq fetchFailed

\* C25: stop() never stands in a call that has no time limit: after the join
\* with its timeout it goes on to return, whatever the thread and the server
\* are doing.
C25_StopReturns ==
    stopping # "blocked"

\* C26: once stop() has returned, the watcher holds no connection, and its
\* thread has neither opened a connection nor emitted a message since.
C26_QuietAfterStop ==
    stopping = "returned" => client = "none" /\ after_stop = {}

\* C27: the messages one check puts on the queue stand there in the order
\* the server listed them, the ascending order of their UIDs.
C27_ServerOrder ==
    [][(Len(email_queue') > Len(email_queue)) =>
         LET emitted == {e.uid : e \in emitLog' \ emitLog}
             added == SubSeq(email_queue', Len(email_queue) + 1,
                             Len(email_queue'))
         IN  \A i, j \in 1..Len(added) :
                 i < j => \E u, v \in emitted :
                              /\ u < v
                              /\ added[i].raw_email = RawOf(u)
                              /\ added[j].raw_email = RawOf(v)]_vars

\* C28: the queue between the watchers and the dispatcher has a capacity:
\* however many messages the watchers emit (MaxEmit here), fewer than that
\* are waiting in it at any time.
C28_QueueBounded ==
    Len(email_queue) < MaxEmit

\* C29: a send that does not complete is given up: the dispatcher, once in
\* the send to one group, eventually stands in its loop again, at the next
\* group or at the queue.
C29_SendGivenUp ==
    (pc = "sending") ~> (pc \in {"fanout", "get"})

\* C30: an exception caught while one item is processed (the queue empty
\* after a second, a store call raising, the parser returning nothing, the
\* send raising) leaves the dispatcher in its loop, at the queue or at the
\* next group of the same item, and takes no later item off the queue.
C30_FailureContained ==
    [][(\/ lastCaught' # lastCaught
        \/ \E s \in sendLog' \ sendLog : s.outcome = "failed"
        \/ /\ pc = "get" /\ email_queue # <<>>
           /\ ~parse_email(Head(email_queue).raw_email).ok
           /\ Len(email_queue') < Len(email_queue))
       => /\ pc' \in {"get", "fanout"}
          /\ pc' = "fanout" => pc \in {"fanout", "sent"} /\ todo' = todo \ {NextGroup}
          /\ email_queue' = IF pc = "get" /\ email_queue # <<>>
                            THEN Tail(email_queue) ELSE email_queue]_vars

\* a store call raised on one item, and a later item has been sent to a group
C30_Witness ==
    /\ pc = "sent"
    /\ \E f \in lastCaught :
           /\ f.kind \in {"email_exists", "get_active_groups", "email_sent_to_group"}
           /\ f.item < nEmit - Len(email_queue)

\* C31: parse_email answers bytes it cannot parse with None, no field filled
\* in, and the dispatcher that takes such an item off the queue goes back to
\* the queue with the store as it was and nothing sent.
C31_ParseFailureDropped ==
    [][(/\ pc = "get" /\ email_queue # <<>>
        /\ Head(email_queue).raw_email = Malformed
        /\ Len(email_queue') < Len(email_queue))
       => /\ parse_email(Malformed) =
                [ok |-> FALSE, message_id |-> "", sender |-> "", subject |-> "",
                 is_spam |-> FALSE]
          /\ UNCHANGED <<storeVars, platVars, sendLog, skipLog>>
          /\ pc' = "get"]_vars

\* the dispatcher has taken items, all of them unparsable, and stored nothing
C31_Witness ==
    /\ nEmit - Len(email_queue) >= 1
    /\ pc = "get"
    /\ presented = {} /\ discarded = {}
    /\ emails = {} /\ sendLog = {}

C34_RowAfterSend ==
    [][/\ \A n \in email_notifications' :
              (~\E m \in email_notifications :
                    m.email_id = n.email_id /\ m.group_id = n.group_id)
                  => /\ pc = "sent"
                     /\ n.email_id = cur.email_id
                     /\ n.group_id = sent_message.group_id
                     /\ n.telegram_message_id = sent_message.message_id
                     /\ n.telegram_message_id >= 1
                     /\ n.is_handled = 0
                     /\ n.handled_at = NoTime /\ n.handled_by = NULL
       /\ (\E s \in sendLog' \ sendLog : s.outcome = "failed")
              => email_notifications' = email_notifications]_vars

\* one group has the row of its send, the send to the other failed and left
\* no row
C34_Witness ==
    \E n \in email_notifications, s \in sendLog :
        /\ s.outcome = "failed"
        /\ s.email_id = n.email_id /\ s.group_id # n.group_id
        /\ ~email_sent_to_group(s.email_id, s.group_id)

\* C35: in every state a Delivery row has a handler and a handled time
\* exactly when it is handled; a pending row has neither.
C35_HandledFieldsTogether ==
    \A n \in email_notifications :
        /\ n.is_handled \in {0, 1}
        /\ n.is_handled = 1 <=> n.handled_by # NULL
        /\ n.is_handled = 1 <=> n.handled_at # NoTime

\* a handled row with its handler and time beside a pending row
C35_Witness ==
    \E n, m \in email_notifications :
        /\ n.is_handled = 1 /\ n.handled_by \in Users /\ n.handled_at >= 0
        /\ m.is_handled = 0

\* C36: the group row of a chat keeps its id through every step, and every
\* Delivery row references a group row that exists.
C36_StableGroupId ==
    [][/\ \A g \in groups, h \in groups' : h.chat_id = g.chat_id => h.id = g.id
       /\ \A n \in email_notifications' :
              \E h \in groups' : h.id = n.group_id]_vars

\* C37: the filter of a chat's group row changes only by the UPDATE of
\* update_group_filter: a step after which a chat that had a row has another
\* filter is that UPDATE and nothing more; a subscribe leaves the filter.
C37_SubscribeKeepsFilter ==
    [][\A g \in groups, h \in groups' :
           (h.chat_id = g.chat_id /\ h.filter_accounts # g.filter_accounts)
               => groups' = update_group_filter(g.chat_id, h.filter_accounts)]_vars

\* C38: the cleanup at start-up keeps every pending Delivery row as it is,
\* keeps every email that a Delivery row left by the cleanup references, and
\* leaves every Delivery row with its email.
C38_CleanupKeepsReferenced ==
    [][(nRestarts' # nRestarts)
       => /\ \A n \in email_notifications :
                 n.is_handled = 0 => n \in email_notifications'
          /\ \A e \in emails :
                 (\E n \in email_notifications' : n.email_id = e.id)
                     => e \in emails'
          /\ \A n \in email_notifications' :
                 \E e \in emails' : e.id = n.email_id]_vars

\* a cleanup has removed the handled row of one group; the pending row of
\* the other group and the email of both, older than the horizon, are stored
C38_Witness ==
    /\ nRestarts >= 1
    /\ \E i \in 1..Len(ackLog) : ackLog[i].handled
    /\ \A m \in email_notifications : m.is_handled = 0
    /\ \E e \in emails, n \in email_notifications :
           n.email_id = e.id /\ e.created_at < clock

\* C39: once stop() has set stop_event, the watcher's thread, in idle_loop or
\* in polling_loop, eventually ends, every wait and every I/O call of the
\* thread returning or raising.
C39_ThreadEnds ==
    stop_event ~> (thread = "finished")

\* stop() was called while the loop was running, and the thread has ended
C39_Witness ==
    /\ thread = "finished"
    /\ stopping \in {"joining", "disconnecting", "returned", "blocked"}
    /\ thread_target \in {"idle", "polling"}

\* C40: in one run of bot_simple no key is broadcast twice, however many
\* messages were processed between the two.
C40_NoRebroadcast ==
    \A i, j \in 1..Len(broadcastLog) :
        broadcastLog[i] = broadcastLog[j] => i = j

====
